---- MODULE Spec2Model ----
(***************************************************************************)
(* Model of duplicate_checker.py: the Textual application                  *)
(* DuplicateCheckerApp, its two scans (duplicate images, missing images),  *)
(* the refresh and copy commands, and the two pure helpers the scans rest  *)
(* on (os.path.splitext on a directory entry, the regular expression of    *)
(* read_items).                                                            *)
(*                                                                         *)
(* Text is modelled as a sequence of one-character strings, so that        *)
(* splitting, matching and joining are computed and not assumed.           *)
(***************************************************************************)
EXTENDS Naturals, Integers, Sequences, FiniteSets, TLC

VARIABLES
    option,      \* self.option: 1 = duplicate scan, 2 = missing-image scan
    dirListing,  \* what os.listdir(self.images_path) returns, in its order
    content,     \* the text of the file at self.items_path
    mounted,     \* on_mount has run
    nScans,      \* number of workers created by run_worker so far
    workers,     \* per worker: position in its coroutine and its locals
    main,        \* children of the "#main" container, in order
    statusText,  \* text of the "#scan-status" widget
    progress,    \* value of the "#scan-progress" bar
    clipboard,   \* the system clipboard as pyperclip leaves it
    notice,      \* the last notification shown by self.notify
    fnIn,        \* argument of the pure function being applied
    fnOut,       \* its result
    fnDone       \* the function has returned

vars == <<option, dirListing, content, mounted, nScans, workers, main,
          statusText, progress, clipboard, notice, fnIn, fnOut, fnDone>>

appVars == <<option, dirListing, content, mounted, nScans, workers, main,
             statusText, progress, clipboard, notice>>

fnVars == <<fnIn, fnOut, fnDone>>

----------------------------------------------------------------------------
(* Bounds of the model *)

\* longest directory entry name given to splitext
MaxNameLen == 4
\* most chunks of catalog text given to read_items
MaxChunks == 6
\* most entries of the image directory in the application model
MaxFiles == 4
\* most catalog entries in the application model
MaxEntries == 2
\* most scans (the one of on_mount plus refreshes) in one run
MaxScans == 2

----------------------------------------------------------------------------
(* Text helpers *)

\* all sequences over S of length lo..hi
SeqsOf(S, lo, hi) == UNION {[1..n -> S] : n \in lo..hi}

\* the largest index of character c in p, 0 when absent (str.rfind, 1-based)
RFind(p, c) ==
    LET hits == {i \in 1..Len(p) : p[i] = c}
    IN  IF hits = {} THEN 0 ELSE CHOOSE i \in hits : \A j \in hits : j <= i

RECURSIVE Concat(_)
\* the concatenation of a sequence of texts
Concat(parts) ==
    IF parts = <<>> THEN <<>> ELSE Head(parts) \o Concat(Tail(parts))

RECURSIVE Join(_, _)
\* sep.join(parts)
Join(sep, parts) ==
    IF parts = <<>> THEN <<>>
    ELSE IF Len(parts) = 1 THEN parts[1]
    ELSE parts[1] \o sep \o Join(sep, Tail(parts))

Digits == <<"0", "1", "2", "3", "4", "5", "6", "7", "8", "9">>

RECURSIVE Str(_)
\* str(n) for a natural number n: its decimal digits
Str(n) ==
    IF n < 10 THEN <<Digits[n + 1]>>
    ELSE Str(n \div 10) \o <<Digits[(n % 10) + 1]>>

----------------------------------------------------------------------------
(* os.path.splitext on a directory entry (line 87, line 121).               *)
(* The standard algorithm: find the last separator and the last dot; the   *)
(* dot splits the name only if some character between the separator and    *)
(* the dot is not itself a dot.                                            *)

RECURSIVE HasNonDotBefore(_, _, _)
\* the while loop of splitext: is some p[i..dot-1] different from "."
HasNonDotBefore(p, i, dot) ==
    IF i >= dot THEN FALSE
    ELSE IF p[i] # "." THEN TRUE
    ELSE HasNonDotBefore(p, i + 1, dot)

\* a plausible slip: cut at the last dot whatever precedes it
SplitextNaive(p) ==
    LET dotIndex == RFind(p, ".")
    IN  IF dotIndex > 0
        THEN <<SubSeq(p, 1, dotIndex - 1), SubSeq(p, dotIndex, Len(p))>>
        ELSE <<p, <<>>>>

\* os.path.splitext(p) = <<root, ext>>
Splitext(p) ==
    LET sepIndex == RFind(p, "/")
        dotIndex == RFind(p, ".")
    IN  IF dotIndex > sepIndex /\ HasNonDotBefore(p, sepIndex + 1, dotIndex)
        THEN <<SubSeq(p, 1, dotIndex - 1), SubSeq(p, dotIndex, Len(p))>>
        ELSE <<p, <<>>>>

\* the grouping and comparison key of a directory entry
BaseName(img) == Splitext(img)[1]

----------------------------------------------------------------------------
(* read_items (lines 60-66): re.finditer over the file's text with the     *)
(* pattern  \[['"]([^'"]+)['"]\]\s*=\s*\{                                  *)

\* ['"]
IsQuote(c) == c \in {"'", "\""}

\* \s
IsSpace(c) == c \in {" ", "\t", "\n", "\r", "\f"}

RECURSIVE KeyEnd(_, _)
\* [^'"]+ is greedy: the first index from i on that holds a quote, or Len+1
KeyEnd(s, i) ==
    IF i > Len(s) THEN i
    ELSE IF IsQuote(s[i]) THEN i
    ELSE KeyEnd(s, i + 1)

RECURSIVE SkipSpace(_, _)
\* \s* is greedy: the first index from i on that is not white space
SkipSpace(s, i) ==
    IF i > Len(s) THEN i
    ELSE IF IsSpace(s[i]) THEN SkipSpace(s, i + 1)
    ELSE i

\* the two quotes of one key as the pattern constrains them: each is any quote
QuotesAccepted(open, close) == IsQuote(open) /\ IsQuote(close)

\* the attempt to match the pattern at index i: [ok, key, end]
MatchAt(s, i) ==
    LET k == KeyEnd(s, i + 2)
        e == SkipSpace(s, k + 2)
        b == SkipSpace(s, e + 1)
        ok == /\ i + 1 <= Len(s)
              /\ s[i] = "["
              /\ k > i + 2
              /\ k + 1 <= Len(s)
              /\ QuotesAccepted(s[i + 1], s[k])
              /\ s[k + 1] = "]"
              /\ e <= Len(s)
              /\ s[e] = "="
              /\ b <= Len(s)
              /\ s[b] = "{"
    IN  [ok |-> ok,
         key |-> IF ok THEN SubSeq(s, i + 2, k - 1) ELSE <<>>,
         end |-> IF ok THEN b + 1 ELSE i + 1]

\* [m.group(1) for m in re.finditer(pattern, s)], scanning from index pos:
\* a match gives its key and the scan goes on after it, a failure moves the
\* scan one character on
FindIter(s, pos) ==
    LET scan[p \in 1..(Len(s) + 1)] ==
            IF p > Len(s) THEN <<>>
            ELSE LET m == MatchAt(s, p)
                 IN  IF m.ok THEN <<m.key>> \o scan[m.end]
                     ELSE scan[p + 1]
    IN  scan[pos]

\* read_items on a file whose text is s
ReadItems(s) == FindIter(s, 1)

----------------------------------------------------------------------------
(* The widgets of the "#main" container *)

\* a child of the container; owner is the worker that mounted it (0: compose)
Widget(kind, id, cls, text, columns, rows, owner) ==
    [kind |-> kind, id |-> id, cls |-> cls, text |-> text,
     columns |-> columns, rows |-> rows, cursor |-> 0, owner |-> owner]

\* Static(text, classes=cls)
Static(text, cls, owner) == Widget("Static", "", cls, text, <<>>, <<>>, owner)

\* DataTable() after add_columns and add_row; cursor_row starts at 0
DataTable(columns, rows, owner) ==
    Widget("DataTable", "", "", <<>>, columns, rows, owner)

\* the four children compose() gives the container
FixedChildren ==
    << Static(<<"FiveM ox_inventory Items Checker">>, "title", 0),
       Static(<<"Running option: ">> \o Str(option), "title", 0),
       Widget("Static", "scan-status", "", <<>>, <<>>, <<>>, 0),
       Widget("ProgressBar", "scan-progress", "", <<>>, <<>>, <<>>, 0) >>

\* what stays after  for child in list(children)[4:]: child.remove()
ClearResults(children) == SubSeq(children, 1, 4)

----------------------------------------------------------------------------
(* The duplicate scan, check_duplicate_images (lines 68-104) *)

\* a plausible slip: the groups are kept on the application and a later
\* scan goes on from those of the first one
EmptyCountsKept ==
    IF nScans >= 2 /\ workers[1].pc = "done" THEN workers[1].image_counts
    ELSE <<>>

\* image_counts = defaultdict(list): groups in insertion order
EmptyCounts == <<>>

\* image_counts[name].append(img)
AddImage(counts, name, img) ==
    IF \E j \in 1..Len(counts) : counts[j].name = name
    THEN [j \in 1..Len(counts) |->
            IF counts[j].name = name
            THEN [counts[j] EXCEPT !.files = Append(@, img)]
            ELSE counts[j]]
    ELSE Append(counts, [name |-> name, files |-> <<img>>])

\* a plausible slip: the filter asks for more than two files
IsDuplicateStrict(files) == Len(files) > 2

\* the filter  len(v) > 1
IsDuplicate(files) == Len(files) > 1

\* duplicates = {k: v for k, v in image_counts.items() if len(v) > 1}
FilterDuplicates(counts) == SelectSeq(counts, LAMBDA g : IsDuplicate(g.files))

\* one table row per duplicate group
DuplicateRow(g) == <<g.name, Str(Len(g.files)), Join(<<",", " ">>, g.files)>>

\* a plausible slip: the warning banner is mounted whatever the result
DuplicateBannerAlways(duplicates, w) ==
    Static(<<"Duplicate images found!">>, "warning", w)

\* the banner of the duplicate scan (lines 102, 104)
DuplicateBanner(duplicates, w) ==
    IF duplicates # <<>>
    THEN Static(<<"Duplicate images found!">>, "warning", w)
    ELSE Static(<<"No duplicate images found.">>, "success", w)

\* the widgets the duplicate scan mounts, in order (lines 96-104)
DuplicateView(duplicates, w) ==
    IF duplicates # <<>>
    THEN << DataTable(<<"Image Name", "Files Count", "Files">>,
                      [j \in 1..Len(duplicates) |-> DuplicateRow(duplicates[j])],
                      w),
            DuplicateBanner(duplicates, w) >>
    ELSE << DuplicateBanner(duplicates, w) >>

----------------------------------------------------------------------------
(* The missing-image scan, check_missing_images (lines 106-137) *)

\* images_set = set(os.path.splitext(img)[0] for img in images)
ImagesSet(images) == {BaseName(images[j]) : j \in 1..Len(images)}

\* a plausible slip: the test is inverted
IsMissingInverted(item, images_set) == item \in images_set

\* the test  item not in images_set
IsMissing(item, images_set) == item \notin images_set

\* missing = [item for item in items if item not in images_set]
FilterMissing(items, images_set) ==
    SelectSeq(items, LAMBDA item : IsMissing(item, images_set))

\* the banner of the missing-image scan (lines 135, 137)
MissingBanner(missing, w) ==
    IF missing # <<>>
    THEN Static(<<"Missing images found: ">> \o Str(Len(missing)), "warning", w)
    ELSE Static(<<"All item images exist.">>, "success", w)

\* the widgets the missing-image scan mounts, in order (lines 129-137)
MissingView(missing, w) ==
    IF missing # <<>>
    THEN << DataTable(<<"Missing Image Item">>,
                      [j \in 1..Len(missing) |-> <<missing[j]>>],
                      w),
            MissingBanner(missing, w) >>
    ELSE << MissingBanner(missing, w) >>

\* int((idx / max(1, total)) * 100)
Percent(idx, total) == (idx * 100) \div (IF total > 1 THEN total ELSE 1)

----------------------------------------------------------------------------
(* The inputs the model draws *)

\* "x" stands for a letter of a file name, ".": the extension separator
FileNames ==
    { <<"a", ".", "x">>, <<"a", ".", "y">>, <<"b", ".", "x">>, <<"b">> }

\* a directory of up to n entries holds each name once; os.listdir gives
\* them in some order
Listings(n) ==
    {l \in SeqsOf(FileNames, 0, n) :
        \A i, j \in 1..Len(l) : i # j => l[i] # l[j]}

\* entries of a catalog file:  ["a"] = {   and   ['b']={
EntryTexts ==
    { <<"[", "\"", "a", "\"", "]", " ", "=", " ", "{">>,
      <<"[", "'", "b", "'", "]", "=", "{">> }

\* catalog files: up to n entries, each followed by a line end
Catalogs(n) ==
    {Concat([j \in 1..Len(es) |-> es[j] \o <<"\n">>]) :
        es \in SeqsOf(EntryTexts, 0, n)}

----------------------------------------------------------------------------
(* The application *)

Workers == 1..MaxScans

\* the locals of a worker that run_worker has not created yet
NoWorker ==
    [pc |-> "none", idx |-> 0, all_images |-> <<>>, image_counts |-> <<>>,
     duplicates |-> <<>>, items |-> <<>>, images_set |-> {}, missing |-> <<>>]

\* the application after __init__ and compose, before on_mount, over a
\* directory drawn from listings and a catalog drawn from catalogs; the
\* catalog file is read in option 2 only
AppInitOver(listings, catalogs) ==
    /\ option \in {1, 2}
    /\ dirListing \in listings
    /\ content \in (IF option = 2 THEN catalogs ELSE {<<>>})
    /\ mounted = FALSE
    /\ nScans = 0
    /\ workers = [w \in Workers |-> NoWorker]
    /\ main = FixedChildren
    /\ statusText = "Scanning items..."
    /\ progress = 0
    /\ clipboard = <<>>
    /\ notice = <<>>

AppInit == AppInitOver(Listings(MaxFiles), Catalogs(MaxEntries))

Init ==
    /\ AppInit
    /\ fnIn = <<>>
    /\ fnOut = <<>>
    /\ fnDone = FALSE

\* a plausible slip: run_worker(..., exclusive=True), which cancels the
\* workers still running
RunWorkerExclusive ==
    /\ nScans' = nScans + 1
    /\ workers' = [w \in Workers |->
          IF w = nScans + 1 THEN [workers[w] EXCEPT !.pc = "start"]
          ELSE IF workers[w].pc \in {"start", "loop"}
               THEN [workers[w] EXCEPT !.pc = "cancelled"]
               ELSE workers[w]]

\* self.run_worker(self.main_check(option=self.option)): a new task, which
\* starts running at a later turn of the event loop
RunWorker ==
    /\ nScans' = nScans + 1
    /\ workers' = [workers EXCEPT ![nScans + 1].pc = "start"]

\* on_mount (lines 49-51)
OnMount ==
    /\ ~mounted
    /\ mounted' = TRUE
    /\ RunWorker
    /\ UNCHANGED <<option, dirListing, content, main, statusText, progress,
                   clipboard, notice, fnVars>>

\* action_refresh (lines 139-141): key "r"; no test of a running scan
ActionRefresh ==
    /\ mounted
    /\ nScans < MaxScans
    /\ RunWorker
    /\ UNCHANGED <<option, dirListing, content, mounted, main, statusText,
                   progress, clipboard, notice, fnVars>>

\* the next value of the loop index
NextIdx(idx) == idx + 1

\* check_duplicate_images from its first line to its first suspension
\* (lines 70-90), or to its end when the directory is empty
DuplicateStart(w) ==
    LET kept == ClearResults(main)
        all_images == dirListing
        total_images == Len(all_images)
    IN  /\ statusText' = "Scanning for duplicate images..."
        /\ IF total_images = 0
           THEN LET duplicates == FilterDuplicates(EmptyCounts)
                IN  /\ workers' = [workers EXCEPT ![w] =
                          [@ EXCEPT !.pc = "done", !.duplicates = duplicates]]
                    /\ main' = kept \o DuplicateView(duplicates, w)
                    /\ progress' = 0
           ELSE /\ workers' = [workers EXCEPT ![w] =
                      [@ EXCEPT !.pc = "loop", !.idx = 0,
                                !.all_images = all_images,
                                !.image_counts =
                                    AddImage(EmptyCounts,
                                             BaseName(all_images[1]),
                                             all_images[1])]]
                /\ main' = kept
                /\ progress' = Percent(0, total_images)

\* check_duplicate_images from one suspension to the next (lines 86-90), or
\* to its end (lines 92-104)
DuplicateResume(w) ==
    LET me == workers[w]
        total_images == Len(me.all_images)
        idx == NextIdx(me.idx)
    IN  IF idx < total_images
        THEN /\ workers' = [workers EXCEPT ![w] =
                   [@ EXCEPT !.idx = idx,
                             !.image_counts =
                                 AddImage(@, BaseName(me.all_images[idx + 1]),
                                          me.all_images[idx + 1])]]
             /\ progress' = Percent(idx, total_images)
             /\ UNCHANGED main
        ELSE LET duplicates == FilterDuplicates(me.image_counts)
             IN  /\ workers' = [workers EXCEPT ![w] =
                       [@ EXCEPT !.pc = "done", !.duplicates = duplicates]]
                 /\ main' = main \o DuplicateView(duplicates, w)
                 /\ UNCHANGED progress

\* check_missing_images from its first line to its first suspension
\* (lines 108-127), or to its end when the catalog has no entry
MissingStart(w) ==
    \E items \in {ReadItems(content)} :
        LET kept == ClearResults(main)
            images == dirListing
            images_set == ImagesSet(images)
            missing == FilterMissing(items, images_set)
        IN  /\ statusText' = "Checking for missing images..."
            /\ workers' = [workers EXCEPT ![w] =
                  [@ EXCEPT !.pc = IF items = <<>> THEN "done" ELSE "loop",
                            !.idx = 0, !.items = items,
                            !.images_set = images_set, !.missing = missing]]
            /\ main' = IF items = <<>> THEN kept \o MissingView(missing, w)
                       ELSE kept
            /\ progress' = IF items = <<>> THEN 0 ELSE Percent(0, Len(items))

\* check_missing_images from one suspension to the next (lines 125-127), or
\* to its end (lines 129-137)
MissingResume(w) ==
    LET me == workers[w]
        idx == NextIdx(me.idx)
    IN  IF idx < Len(me.items)
        THEN /\ workers' = [workers EXCEPT ![w].idx = idx]
             /\ progress' = Percent(idx, Len(me.items))
             /\ UNCHANGED main
        ELSE /\ workers' = [workers EXCEPT ![w].pc = "done"]
             /\ main' = main \o MissingView(me.missing, w)
             /\ UNCHANGED progress

\* main_check (lines 53-58) as the task of worker w begins to run
WorkerStart(w) ==
    /\ workers[w].pc = "start"
    /\ IF option = 1 THEN DuplicateStart(w) ELSE MissingStart(w)
    /\ UNCHANGED <<option, dirListing, content, mounted, nScans, clipboard,
                   notice, fnVars>>

\* worker w wakes from  await asyncio.sleep(0.005)  (lines 90, 127)
WorkerResume(w) ==
    /\ workers[w].pc = "loop"
    /\ IF option = 1 THEN DuplicateResume(w) ELSE MissingResume(w)
    /\ UNCHANGED <<option, dirListing, content, mounted, nScans, statusText,
                   clipboard, notice, fnVars>>

\* tables = self.query(DataTable): the tables of the screen, in order
Tables == SelectSeq(main, LAMBDA c : c.kind = "DataTable")

\* action_copy_selected (lines 143-155): key "c"; pyperclip.copy succeeds
\* or raises, and a raise is caught and notified
ActionCopySelected ==
    /\ mounted
    /\ IF Tables # <<>>
       THEN LET table == Tables[1]
                row_data == table.rows[table.cursor + 1]
            IN  \E copied \in BOOLEAN :
                    IF copied
                    THEN /\ clipboard' = row_data[1]
                         /\ notice' = <<"Copied: ">> \o row_data[1]
                    ELSE /\ notice' = <<"Copy failed: ">>
                         /\ UNCHANGED clipboard
       ELSE UNCHANGED <<clipboard, notice>>
    /\ UNCHANGED <<option, dirListing, content, mounted, nScans, workers,
                   main, statusText, progress, fnVars>>

\* the user moves the cursor of a table to row r (table.cursor_row, line 149)
CursorMove(i, r) ==
    /\ main[i].kind = "DataTable"
    /\ r < Len(main[i].rows)
    /\ r # main[i].cursor
    /\ main' = [main EXCEPT ![i].cursor = r]
    /\ UNCHANGED <<option, dirListing, content, mounted, nScans, workers,
                   statusText, progress, clipboard, notice, fnVars>>

Next ==
    \/ OnMount
    \/ ActionRefresh
    \/ \E w \in Workers : WorkerStart(w)
    \/ \E w \in Workers : WorkerResume(w)
    \/ ActionCopySelected
    \/ \E i \in DOMAIN main : \E r \in 0..(Len(main[i].rows) - 1) : CursorMove(i, r)

Spec == Init /\ [][Next]_vars

\* a step of some worker: the start of its task or its waking from a sleep
WorkerStep == \E w \in Workers : WorkerStart(w) \/ WorkerResume(w)

\* the event loop runs a task that is ready and ends every sleep: while some
\* worker can take a step, some worker does
Fairness == WF_vars(WorkerStep)

\* one directory per number of entries, up to n: how far a scan has to go
\* depends on that number only
ListingsByLength(n) ==
    LET all == << <<"a", ".", "x">>, <<"a", ".", "y">>,
                  <<"b", ".", "x">>, <<"b">> >>
    IN  {SubSeq(all, 1, k) : k \in 0..(IF n < Len(all) THEN n ELSE Len(all))}

\* one catalog per number of entries, up to n
CatalogsByLength(n) ==
    {Concat([j \in 1..k |->
                <<"[", "\"", "a", "\"", "]", " ", "=", " ", "{", "\n">>]) :
        k \in 0..n}

LiveInit ==
    /\ AppInitOver(ListingsByLength(MaxFiles), CatalogsByLength(MaxEntries))
    /\ fnIn = <<>>
    /\ fnOut = <<>>
    /\ fnDone = FALSE

LiveSpec == LiveInit /\ [][Next]_vars /\ Fairness

----------------------------------------------------------------------------
(* os.path.splitext applied to one directory entry name *)

\* the names of directory entries up to n characters: non-empty, and never
\* "." or ".."
EntryNames(n) ==
    SeqsOf({"a", "b", "."}, 1, n) \ {<<".">>, <<".", ".">>}

\* the application as constructed, left alone while a function is applied
AppAtRest ==
    /\ option = 1
    /\ dirListing = <<>>
    /\ content = <<>>
    /\ mounted = FALSE
    /\ nScans = 0
    /\ workers = [w \in Workers |-> NoWorker]
    /\ main = FixedChildren
    /\ statusText = "Scanning items..."
    /\ progress = 0
    /\ clipboard = <<>>
    /\ notice = <<>>

SplitInit ==
    /\ AppAtRest
    /\ fnIn \in EntryNames(MaxNameLen)
    /\ fnOut = <<>>
    /\ fnDone = FALSE

\* name = os.path.splitext(img)[0] and the extension beside it (line 87)
ApplySplitext ==
    /\ ~fnDone
    /\ fnOut' = Splitext(fnIn)
    /\ fnDone' = TRUE
    /\ UNCHANGED <<fnIn, appVars>>

SplitSpec == SplitInit /\ [][ApplySplitext]_vars

----------------------------------------------------------------------------
(* read_items applied to one catalog text *)

\* pieces of catalog text: openings with a key, closings, tails, a letter
Chunks ==
    { <<"[", "\"", "a">>, <<"[", "'", "a">>, <<"\"", "]">>, <<"'", "]">>,
      <<"=", "{">>, <<" ", "=", " ", "{">>, <<"a">> }

\* the texts of up to n pieces
CatalogTexts(n) == {Concat(cs) : cs \in SeqsOf(Chunks, 0, n)}

ReadInit ==
    /\ AppAtRest
    /\ fnIn \in CatalogTexts(MaxChunks)
    /\ fnOut = <<>>
    /\ fnDone = FALSE

\* ids = read_items() on the file's text (lines 62-66)
ApplyReadItems ==
    /\ ~fnDone
    /\ fnOut' = ReadItems(fnIn)
    /\ fnDone' = TRUE
    /\ UNCHANGED <<fnIn, appVars>>

ReadSpec == ReadInit /\ [][ApplyReadItems]_vars

----------------------------------------------------------------------------
(* Vocabulary of the properties *)

\* worker w has been created and has not reached the end of its scan
Active(w) == workers[w].pc \in {"start", "loop"}

\* worker w is suspended at a yield point inside its scan loop
MidScan(w) == workers[w].pc = "loop"

Done(w) == workers[w].pc = "done"

\* the controller states of the interaction: a scan is wanted or under way
Scanning == \E w \in Workers : Active(w)

\* some scan has been run and none is wanted or under way
Displaying == nScans >= 1 /\ ~Scanning

\* the result set of a finished scan
ResultOf(w) ==
    IF option = 1 THEN workers[w].duplicates ELSE workers[w].missing

\* the rows a finished scan put in its table
RowsOf(w) ==
    IF option = 1
    THEN [j \in 1..Len(workers[w].duplicates) |->
            DuplicateRow(workers[w].duplicates[j])]
    ELSE [j \in 1..Len(workers[w].missing) |-> <<workers[w].missing[j]>>]

\* the children of the container that worker w mounted
MountedBy(w) == SelectSeq(main, LAMBDA c : c.owner = w)

\* the indices of the listing whose base name another entry shares
SharedIdx == {i \in 1..Len(dirListing) :
                \E k \in 1..Len(dirListing) :
                    k # i /\ BaseName(dirListing[k]) = BaseName(dirListing[i])}

\* the k-th smallest element of a set of numbers
Kth(S, k) == CHOOSE i \in S : Cardinality({j \in S : j <= i}) = k

\* text ends with the decimal digits of n, after something else
StatesNumber(text, n) ==
    /\ Len(text) > Len(Str(n))
    /\ SubSeq(text, Len(text) - Len(Str(n)) + 1, Len(text)) = Str(n)

----------------------------------------------------------------------------
(* Properties *)

\* C1: a finished duplicate scan reports only groups of two or more files,
\* each group under a base name its files share, and the files of all the
\* reported groups are exactly the listed entries whose base name another
\* entry shares; its table has one row per group with the group's count.
C1_DuplicateGroups ==
    \A w \in Workers :
        (option = 1 /\ Done(w)) =>
            LET d == workers[w].duplicates
            IN  /\ \A j \in 1..Len(d) :
                      /\ Len(d[j].files) >= 2
                      /\ \A f \in 1..Len(d[j].files) :
                             BaseName(d[j].files[f]) = d[j].name
                /\ \A i, j \in 1..Len(d) : i # j => d[i].name # d[j].name
                /\ UNION {{d[j].files[f] : f \in 1..Len(d[j].files)} :
                             j \in 1..Len(d)}
                     = {dirListing[i] : i \in SharedIdx}
                /\ \A c \in {MountedBy(w)[i] : i \in 1..Len(MountedBy(w))} :
                      c.kind = "DataTable" =>
                          /\ Len(c.rows) = Len(d)
                          /\ \A j \in 1..Len(d) :
                                 /\ c.rows[j][1] = d[j].name
                                 /\ c.rows[j][2] = Str(Len(d[j].files))

\* a duplicate scan has finished on a directory that holds a shared base
\* name and an entry whose base name no other entry has
C1_Witness ==
    \E w \in Workers :
        /\ option = 1
        /\ Done(w)
        /\ workers[w].duplicates # <<>>
        /\ SharedIdx # {}
        /\ SharedIdx # 1..Len(dirListing)

\* C2: a finished missing-image scan returns exactly the identifiers of the
\* catalog that are not base names of the directory, in catalog order, and
\* as many times as they occur.
C2_MissingSubsequence ==
    \A w \in Workers :
        (option = 2 /\ Done(w)) =>
            LET items == workers[w].items
                absent == {i \in 1..Len(items) :
                             \A k \in 1..Len(dirListing) :
                                 BaseName(dirListing[k]) # items[i]}
                missing == workers[w].missing
            IN  /\ Len(missing) = Cardinality(absent)
                /\ \A k \in 1..Len(missing) : missing[k] = items[Kth(absent, k)]

\* a missing-image scan has finished on a catalog that names the same
\* identifier twice and has no image for it, while the directory has images
C2_Witness ==
    \E w \in Workers :
        /\ option = 2
        /\ Done(w)
        /\ Len(workers[w].items) = 2
        /\ workers[w].items[1] = workers[w].items[2]
        /\ workers[w].missing = workers[w].items
        /\ dirListing # <<>>

\* C3: at most one scan worker is inside its scan at any time.
C3_SingleMutator ==
    Cardinality({w \in Workers : MidScan(w)}) <= 1

\* C4: whenever no scan is wanted or under way after the start, the container
\* holds its four fixed children followed by the result view of one scan:
\* at most one table, then exactly one banner.
C4_OneResultView ==
    Displaying =>
        /\ SubSeq(main, 1, 4) = FixedChildren
        /\ \/ /\ Len(main) = 5
              /\ main[5].kind = "Static"
           \/ /\ Len(main) = 6
              /\ main[5].kind = "DataTable"
              /\ main[6].kind = "Static"
              /\ main[5].owner = main[6].owner

\* C5 as amended: the banner a scan appends as it ends is a success banner
\* exactly when its result set is empty and a warning banner otherwise; the
\* warning of the missing-image scan states the number of rows, the warning
\* of the duplicate scan is a fixed text without a number.
C5_Banner ==
    [][\A w \in Workers :
          (~Done(w) /\ Done(w)') =>
              LET b == main'[Len(main')]
                  n == Len(ResultOf(w)')
              IN  /\ b.owner = w
                  /\ b.kind = "Static"
                  /\ b.cls \in {"success", "warning"}
                  /\ (b.cls = "success") <=> (n = 0)
                  /\ (n > 0 /\ option = 2) =>
                        b.text = <<"Missing images found: ">> \o Str(n)
                  /\ (n > 0 /\ option = 1) =>
                        /\ b.text = <<"Duplicate images found!">>
                        /\ ~StatesNumber(b.text, n)]_vars

\* a duplicate scan has ended with duplicates and its warning is on display
C5_Witness ==
    \E w \in Workers :
        /\ option = 1
        /\ Done(w)
        /\ workers[w].duplicates # <<>>
        /\ main[Len(main)].owner = w
        /\ main[Len(main)].cls = "warning"

\* C5 as stated: in both modes the banner appended as a scan ends is a
\* success banner exactly when the result set is empty, and otherwise a
\* warning banner that states the number of result rows.
C5_Original ==
    [][\A w \in Workers :
          (~Done(w) /\ Done(w)') =>
              LET b == main'[Len(main')]
                  n == Len(ResultOf(w)')
              IN  /\ b.owner = w
                  /\ (b.cls = "success") <=> (n = 0)
                  /\ n > 0 => (b.cls = "warning" /\ StatesNumber(b.text, n))]_vars

\* C6: the clipboard is written only when no scan is inside its loop, and
\* then with the first column of the highlighted row of the first table; a
\* copy, whether it succeeds or fails, leaves the workers and the rendered
\* children as they are.
C6_CopyOnlyWhenDisplaying ==
    [][/\ clipboard' # clipboard =>
              /\ ~(\E w \in Workers : MidScan(w))
              /\ Tables # <<>>
              /\ clipboard' = Tables[1].rows[Tables[1].cursor + 1][1]
       /\ (clipboard' # clipboard \/ notice' # notice) =>
              /\ workers' = workers
              /\ main' = main]_vars

\* C7: every two finished scans of one run, over the unchanged directory and
\* catalog, have the same result rows in the same order, and every table on
\* display holds those rows.
C7_Idempotent ==
    \A w1, w2 \in Workers :
        (Done(w1) /\ Done(w2)) =>
            /\ RowsOf(w1) = RowsOf(w2)
            /\ \A i \in 1..Len(main) :
                   main[i].kind = "DataTable" => main[i].rows = RowsOf(w2)

\* the second scan was started after the first had finished (its start
\* cleared the first one's view) and has finished with rows to show
C7_Witness ==
    /\ Done(1)
    /\ Done(2)
    /\ Len(main) = 6
    /\ main[5].owner = 2
    /\ Len(main[5].rows) >= 1

\* C8 as amended: the base name is the name up to its last "." when some
\* character before that "." is not a "."; otherwise (no ".", or only "."
\* before the last one, as in a name that is a "." followed by letters) it
\* is the whole name. Root and extension together are the name.
C8_BaseName ==
    fnDone =>
        LET dot == RFind(fnIn, ".")
        IN  /\ fnOut[1] \o fnOut[2] = fnIn
            /\ fnOut[1] = IF \E i \in 1..(dot - 1) : fnIn[i] # "."
                          THEN SubSeq(fnIn, 1, dot - 1)
                          ELSE fnIn

\* a name that begins with "." and has a later ".": only the last is cut
C8_Witness ==
    /\ fnDone
    /\ fnIn = <<".", "a", ".", "b">>
    /\ fnOut = << <<".", "a">>, <<".", "b">> >>

\* C8 as stated: the base name of every name is the name without everything
\* from its last "." on, if it has one.
C8_Original ==
    fnDone =>
        LET dot == RFind(fnIn, ".")
        IN  fnOut[1] = IF dot > 0 THEN SubSeq(fnIn, 1, dot - 1) ELSE fnIn

\* an occurrence, at index i, of  ["key"] = {  or  ['key'] = {  : the closing
\* quote is the opening one, the key is non-empty and holds no quote
SameStyleMatchAt(s, i) ==
    LET k == KeyEnd(s, i + 2)
        e == SkipSpace(s, k + 2)
        b == SkipSpace(s, e + 1)
        ok == /\ i + 1 <= Len(s)
              /\ s[i] = "["
              /\ IsQuote(s[i + 1])
              /\ k > i + 2
              /\ k + 1 <= Len(s)
              /\ s[k] = s[i + 1]
              /\ s[k + 1] = "]"
              /\ e <= Len(s)
              /\ s[e] = "="
              /\ b <= Len(s)
              /\ s[b] = "{"
    IN  [ok |-> ok,
         key |-> IF ok THEN SubSeq(s, i + 2, k - 1) ELSE <<>>,
         end |-> IF ok THEN b + 1 ELSE i + 1]

\* the keys of those occurrences from index pos on, left to right
SameStyleKeys(s, pos) ==
    LET scan[p \in 1..(Len(s) + 1)] ==
            IF p > Len(s) THEN <<>>
            ELSE LET m == SameStyleMatchAt(s, p)
                 IN  IF m.ok THEN <<m.key>> \o scan[m.end]
                     ELSE scan[p + 1]
    IN  scan[pos]

\* C9: read_items returns, in order and without deduplication, exactly the
\* keys of the occurrences of ["key"] = { or ['key'] = { whose two quotes
\* are of the same style; a key opened with one style and closed with the
\* other gives no identifier, and the empty text gives the empty sequence.
C9_SameStyleKeys ==
    fnDone => fnOut = SameStyleKeys(fnIn, 1)

====
